---- MODULE Spec2Model ----
(***************************************************************************)
(* Model of earthquake_fns.py: select_quake_subset (the range filter over  *)
(* an earthquake catalogue), get_slope and get_plate_boundaries.  Line     *)
(* numbers are those of project2_max; project2_benson holds the same       *)
(* get_plate_boundaries and none of the other two.                         *)
(*                                                                         *)
(* A catalogue (pandas DataFrame) is a record                              *)
(*   [cols   : the set of column names it has,                             *)
(*    rows   : the sequence of its rows, each a record over cols,          *)
(*    tdtype : the dtype of its Time column: "object" (strings as read     *)
(*             from the file), "naive" (datetime64) or "aware"             *)
(*             (datetime64 with a UTC offset)].                            *)
(* A Time cell is either a string as read from the file or a parsed        *)
(* instant (Timestamp); the two are different values.                      *)
(***************************************************************************)
EXTENDS Integers, Sequences, FiniteSets, TLC

VARIABLES
    df,          \* select_quake_subset: the caller's catalogue object
    df_sub,      \* its local df_sub; the returned table once pc = "done"
    shared,      \* whether df_sub names the caller's object itself
    args,        \* the arguments times, lons, lats, depths, mags
    pc,          \* the block of select_quake_subset to run next
    err,         \* the exception the call raised, "" if none
    calls,       \* 1 for a call on a catalogue, 2 for the call on its output
    df0,         \* the caller's catalogue as it was when the call began
    first,       \* what the first call returned
    start_pt,    \* get_slope: its arguments
    end_pt,
    slope_pc,    \* "call", then "returned" or "raised"
    slope_deg,   \* the value get_slope returned
    plates_file, \* get_plate_boundaries: the rows of the file
    plates_df,   \* the frame read_csv made of them
    todo,        \* the unique names the loop has yet to visit
    pb_dict,     \* the dictionary under construction
    plates_pc    \* "read", "loop", "done"

filterVars == <<df, df_sub, shared, args, pc, err, calls, df0, first>>

slopeVars == <<start_pt, end_pt, slope_pc, slope_deg>>

plateVars == <<plates_file, plates_df, todo, pb_dict, plates_pc>>

vars == <<filterVars, slopeVars, plateVars>>

\* Longest catalogue drawn for a call of select_quake_subset.
MaxRows == 2

\* Largest first coordinate of a point given to get_slope.
MaxX == 2

\* Largest second coordinate (in absolute value) of the end point.
MaxY == 120

\* Longest plate-boundary file.
MaxFileRows == 2

--------------------------------------------------------------------------
(* Values *)

\* The missing numeric value of pandas; every comparison with it is false.
NaN == 99

\* The absent optional argument (times=None, lons=None, ...).
None == <<>>

NumCols == {"Longitude", "Latitude", "Depth", "Magnitude"}

\* The columns a range argument can name, in the order the code applies them.
RangeCols == <<"Time", "Longitude", "Latitude", "Depth", "Magnitude">>

\* The keyword argument that carries the range of column c.
ArgName(c) ==
    CASE c = "Time"      -> "times"
      [] c = "Longitude" -> "lons"
      [] c = "Latitude"  -> "lats"
      [] c = "Depth"     -> "depths"
      [] c = "Magnitude" -> "mags"

\* EventID stands for the passthrough columns of the catalogue file.
AllCols == NumCols \cup {"Time", "EventID"}

\* A Time cell holding the string read from the file.
Str(s) == [kind |-> "str", text |-> s, inst |-> 0, tz |-> ""]

\* A Time cell holding a parsed instant; tz is "naive" or "aware".
Ts(i, z) == [kind |-> "ts", text |-> "", inst |-> i, tz |-> z]

\* What the parser yields for a string that matches no date-time grammar.
Unparseable == [kind |-> "bad", text |-> "", inst |-> 0, tz |-> ""]

\* The mixed-format date-time parser on one string.  Two of the strings
\* denote the same instant in different formats.
ParseTime(s) ==
    CASE s = "2000-10-31T01:30:00"           -> Ts(1, "naive")
      [] s = "2000-10-31 01:30:00.000"       -> Ts(1, "naive")
      [] s = "2001-01-01T00:00:00"           -> Ts(2, "naive")
      [] s = "2000-10-31T01:30:00.000-05:00" -> Ts(3, "aware")
      [] OTHER                               -> Unparseable

\* to_datetime on one value: a value that is already an instant is kept.
ToDatetime_StrOnly(cell) ==
    IF cell.kind = "str" THEN ParseTime(cell.text) ELSE Unparseable

ToDatetime(cell) ==
    IF cell.kind = "ts" THEN cell
    ELSE IF cell.kind = "str" THEN ParseTime(cell.text)
    ELSE Unparseable

NoTable == [cols |-> {}, rows |-> <<>>, tdtype |-> "object"]

Ok(t) == [ok |-> TRUE, err |-> "", t |-> t]

Err(kind) == [ok |-> FALSE, err |-> kind, t |-> NoTable]

--------------------------------------------------------------------------
(* select_quake_subset *)

\* df.copy(): a new object with the same contents.  shared tells whether
\* the result is the caller's object itself.
DfCopy_Alias(t) == [tbl |-> t, shared |-> TRUE]

DfCopy_Project(t) ==
    [tbl |-> [cols |-> t.cols \ {"EventID"},
              rows |-> [i \in 1..Len(t.rows) |->
                          [c \in t.cols \ {"EventID"} |-> t.rows[i][c]]],
              tdtype |-> t.tdtype],
     shared |-> FALSE]

DfCopy(t) == [tbl |-> t, shared |-> FALSE]

\* The frame a step indexes: df_sub, the subset narrowed so far.
StepBase_Src(src, sub) == src

StepBase(src, sub) == sub

\* col >= bound and col <= bound on a numeric column.
Ge_Strict(a, b) == a # NaN /\ b # NaN /\ a > b

Ge(a, b) == a # NaN /\ b # NaN /\ a >= b

Le(a, b) == a # NaN /\ b # NaN /\ a <= b

\* df_sub[(df_sub[c] >= lo) & (df_sub[c] <= hi)] on a numeric column.
Narrow(rows, c, rng) ==
    SelectSeq(rows, LAMBDA r : Ge(r[c], rng[1]) /\ Le(r[c], rng[2]))

\* One of the four numeric blocks: if <range> is not None: df_sub = ...
RangeStep_SkipEmpty(t, c, rng) ==
    IF rng = None \/ t.rows = <<>> THEN Ok(t)
    ELSE IF c \notin t.cols THEN Err("KeyError")
    ELSE Ok([t EXCEPT !.rows = Narrow(t.rows, c, rng)])

RangeStep(t, c, rng) ==
    IF rng = None THEN Ok(t)
    ELSE IF c \notin t.cols THEN Err("KeyError")
    ELSE Ok([t EXCEPT !.rows = Narrow(t.rows, c, rng)])

\* df_sub['Time'] = pd.to_datetime(df_sub['Time'], format='mixed'):
\* the table with its Time column converted, or the error raised.  A column
\* that mixes instants with and without a UTC offset fails the call; which
\* exception it is depends on the pandas release (see ErrKinds).
ConvertTime(t) ==
    IF "Time" \notin t.cols THEN Err("KeyError")
    ELSE LET conv == [i \in 1..Len(t.rows) |-> ToDatetime(t.rows[i].Time)]
             tzs  == {conv[i].tz : i \in 1..Len(t.rows)}
         IN  IF \E i \in 1..Len(t.rows) : conv[i].kind = "bad"
                 THEN Err("ValueError")
             ELSE IF Cardinality(tzs) > 1 THEN Err("MixedTz")
             ELSE Ok([cols   |-> t.cols,
                      rows   |-> [i \in 1..Len(t.rows) |->
                                    [t.rows[i] EXCEPT !.Time = conv[i]]],
                      tdtype |-> IF tzs = {}
                                     THEN (IF t.tdtype = "object"
                                              THEN "naive" ELSE t.tdtype)
                                     ELSE CHOOSE z \in tzs : TRUE])

\* The rest of the times block on the converted table: the bounds are
\* parsed, then compared with the column.
CompareTime(t, rng) ==
    LET t_start == ToDatetime(rng[1])
        t_end   == ToDatetime(rng[2])
    IN  IF t_start.kind = "bad" \/ t_end.kind = "bad" THEN Err("ValueError")
        ELSE IF t_start.tz # t.tdtype \/ t_end.tz # t.tdtype
            THEN Err("TypeError")
        ELSE Ok([t EXCEPT !.rows =
                   SelectSeq(t.rows, LAMBDA r : /\ r.Time.inst >= t_start.inst
                                                /\ r.Time.inst <= t_end.inst)])

\* The times block as a whole.
TimesStep(t, rng) ==
    IF rng = None THEN Ok(t)
    ELSE LET conv == ConvertTime(t)
         IN  IF conv.ok THEN CompareTime(conv.t, rng) ELSE conv

\* The block of the code that handles the range on column c.
ApplyOne(src, sub, c, a) ==
    IF c = "Time" THEN TimesStep(StepBase(src, sub), a[ArgName(c)])
    ELSE RangeStep(StepBase(src, sub), c, a[ArgName(c)])

\* The exceptions a failed step can surface as.  A Time column mixing
\* offset-carrying and offset-free instants is rejected by to_datetime
\* (ValueError) or by the comparison that follows (TypeError).
ErrKinds(e) == IF e = "MixedTz" THEN {"ValueError", "TypeError"} ELSE {e}

--------------------------------------------------------------------------
(* get_slope *)

Rise(start_p, end_p) == end_p[2] - start_p[2]

Run_FromY(start_p, end_p) == end_p[2] - start_p[2]

Run(start_p, end_p) == end_p[1] - start_p[1]

Abs(n) == IF n < 0 THEN 0 - n ELSE n

Sign(n) == IF n > 0 THEN 1 ELSE IF n < 0 THEN 0 - 1 ELSE 0

\* tan of 0.5, 1.5, ..., 89.5 degrees, in units of 1/10000.
TanHalf ==
    <<87, 262, 437, 612, 787, 963, 1139, 1317, 1495,
      1673, 1853, 2035, 2217, 2401, 2586, 2773, 2962, 3153,
      3346, 3541, 3739, 3939, 4142, 4348, 4557, 4770, 4986,
      5206, 5430, 5658, 5890, 6128, 6371, 6619, 6873, 7133,
      7400, 7673, 7954, 8243, 8541, 8847, 9163, 9490, 9827,
      10176, 10538, 10913, 11303, 11708, 12131, 12572, 13032, 13514,
      14019, 14550, 15108, 15697, 16319, 16977, 17675, 18418, 19210,
      20057, 20965, 21943, 22998, 24142, 25386, 26746, 28239, 29887,
      31716, 33759, 36059, 38667, 41653, 45107, 49152, 53955, 59758,
      66912, 75958, 87769, 103854, 127062, 163499, 229038, 381885, 1145887>>

\* np.degrees(np.arctan(rise / run)).  The result of the floating-point
\* computation is the exact angle rounded to the nearest number the result
\* format holds.  The model keeps the rounding and makes the format coarse:
\* its numbers near 90 are one degree apart where those of binary64 are
\* 2^-46 degree apart.
DegreesArctan_Radians(rise, run) ==
    Sign(rise) * Sign(run) *
        Cardinality({t \in {5463, 141014} : Abs(rise) * 10000 >= t * Abs(run)})

DegreesArctan(rise, run) ==
    Sign(rise) * Sign(run) *
        Cardinality({k \in 1..90 : Abs(rise) * 10000 >= TanHalf[k] * Abs(run)})

\* get_slope as a function: raised tells whether it raised ValueError.
GetSlope(start_p, end_p) ==
    LET rise == Rise(start_p, end_p)
        run  == Run(start_p, end_p)
    IN  IF run = 0 THEN [raised |-> TRUE, deg |-> 0]
        ELSE [raised |-> FALSE, deg |-> DegreesArctan(rise, run)]

--------------------------------------------------------------------------
(* get_plate_boundaries *)

\* The name cell of a row whose name field read_csv took for a missing value.
NaNName == "<missing>"

\* The strings read_csv reads as a missing value by default.
NaValues == {"", "NA", "N/A", "NaN", "nan", "NULL", "null", "n/a", "#N/A", "<NA>"}

\* pd.read_csv(plates_file, header=None, names=["name", "lat", "lon"]).
ReadCsv(file) ==
    [i \in 1..Len(file) |->
        [name |-> IF file[i][1] \in NaValues THEN NaNName ELSE file[i][1],
         lat  |-> file[i][2],
         lon  |-> file[i][3]]]

\* df["name"] == plate_name on one cell: a missing value equals nothing.
NameEq(a, b) == a # NaNName /\ b # NaNName /\ a = b

\* df["name"].unique(): the distinct names in first-seen order, the
\* missing value among them.
RECURSIVE Unique(_)
Unique(names) ==
    IF names = <<>> THEN <<>>
    ELSE LET init == Unique(SubSeq(names, 1, Len(names) - 1))
             last == names[Len(names)]
         IN  IF \E i \in 1..Len(init) : init[i] = last THEN init
             ELSE Append(init, last)

\* np.column_stack((subset["lon"], subset["lat"])) for one plate name.
RECURSIVE Coords(_, _)
Coords(frame, plate_name) ==
    IF frame = <<>> THEN <<>>
    ELSE LET rest == Coords(Tail(frame), plate_name)
         IN  IF NameEq(Head(frame).name, plate_name)
                 THEN <<(<<Head(frame).lon, Head(frame).lat>>)>> \o rest
             ELSE rest

--------------------------------------------------------------------------
(* The inputs drawn *)

CatRow(id, time, lon, lat, depth, mag) ==
    [EventID |-> id, Time |-> Str(time), Longitude |-> lon, Latitude |-> lat,
     Depth |-> depth, Magnitude |-> mag]

\* The rows catalogues are made of: times in two formats, one with a UTC
\* offset, one unparseable, and a missing depth.
RowPool ==
    {CatRow(1, "2000-10-31 01:30:00.000", 1, 1, 2, 3),
     CatRow(2, "2001-01-01T00:00:00", 2, 1, NaN, 2),
     CatRow(3, "2000-10-31T01:30:00.000-05:00", 3, 2, 2, 2),
     CatRow(4, "31 Octember", 2, 1, 1, 1)}

\* A catalogue as get_earthquakes reads it: rows in file order, repeats
\* allowed, Time held as strings, and possibly without one of the columns.
Catalogues ==
    {[cols   |-> AllCols \ missing,
      rows   |-> [i \in 1..n |-> [c \in AllCols \ missing |-> rs[i][c]]],
      tdtype |-> "object"] :
        <<n, rs, missing>> \in
            UNION {{<<k, f, m>> : f \in [1..k -> RowPool],
                                  m \in {{}} \cup {{c} : c \in AllCols \ {"EventID"}}} :
                   k \in 0..MaxRows}}

ArgChoices ==
    [times  : {None, <<Str("2000-10-31T01:30:00"), Str("2000-10-31 01:30:00.000")>>,
               <<Ts(3, "aware"), Ts(3, "aware")>>},
     lons   : {None, <<1, 2>>, <<2, 3>>},
     lats   : {None, <<1, 1>>},
     depths : {None, <<2, 2>>},
     mags   : {None, <<2, 3>>, <<3, 5>>}]

Points == (0..MaxX) \X (0..1)

EndPoints == (0..MaxX) \X ((0 - MaxY)..MaxY)

FileRows == {"AF", "PA", "NA"} \X {1, 2} \X {3, 4}

PlateFiles == UNION {[1..n -> FileRows] : n \in 0..MaxFileRows}

EmptyDict == [k \in {} |-> <<>>]

--------------------------------------------------------------------------
(* select_quake_subset, block by block *)

FilterIdle ==
    /\ df = NoTable /\ df_sub = NoTable /\ shared = FALSE
    /\ args = [c \in {} |-> None]
    /\ pc = "idle" /\ err = "" /\ calls = 0 /\ df0 = NoTable /\ first = NoTable

FilterInit ==
    /\ df \in Catalogues
    /\ args \in ArgChoices
    /\ df_sub = NoTable /\ shared = FALSE
    /\ pc = "start" /\ err = "" /\ calls = 1
    /\ df0 = df /\ first = NoTable

\* df_sub = df.copy()
Enter ==
    /\ pc = "start"
    /\ df_sub' = DfCopy(df).tbl
    /\ shared' = DfCopy(df).shared
    /\ pc' = "Time"
    /\ UNCHANGED <<df, args, err, calls, df0, first, slopeVars, plateVars>>

\* The block for column c, then on to the block `next`.  The times block
\* assigns the converted column into df_sub's object before it filters; a
\* filter leaves df_sub naming a new object.
Block(c, next) ==
    /\ pc = c
    /\ LET base == StepBase(df, df_sub)
           r    == ApplyOne(df, df_sub, c, args)
           conv == ConvertTime(base)
       IN  /\ df' = IF c = "Time" /\ args.times # None /\ shared /\ conv.ok
                        THEN conv.t ELSE df
           /\ IF r.ok
                  THEN /\ df_sub' = r.t
                       /\ shared' = (shared /\ args[ArgName(c)] = None)
                       /\ pc' = next
                       /\ err' = ""
                  ELSE /\ df_sub' = NoTable
                       /\ shared' = FALSE
                       /\ pc' = "error"
                       /\ err' \in ErrKinds(r.err)
    /\ UNCHANGED <<args, calls, df0, first, slopeVars, plateVars>>

TimesBlock == Block("Time", "Longitude")

LonsBlock == Block("Longitude", "Latitude")

LatsBlock == Block("Latitude", "Depth")

DepthsBlock == Block("Depth", "Magnitude")

\* The last block; return df_sub follows it.
MagsBlock == Block("Magnitude", "done")

\* The caller filters the returned table again with the same bounds.
Reapply ==
    /\ pc = "done" /\ calls = 1
    /\ df' = df_sub
    /\ df0' = df_sub
    /\ first' = df_sub
    /\ calls' = 2
    /\ pc' = "start"
    /\ df_sub' = NoTable
    /\ shared' = FALSE
    /\ UNCHANGED <<args, err, slopeVars, plateVars>>

--------------------------------------------------------------------------
(* get_slope and get_plate_boundaries as steps *)

SlopeIdle ==
    /\ start_pt = <<0, 0>> /\ end_pt = <<0, 0>>
    /\ slope_pc = "idle" /\ slope_deg = 0

SlopeInit ==
    /\ start_pt \in Points
    /\ end_pt \in EndPoints
    /\ slope_pc = "call" /\ slope_deg = 0

CallGetSlope ==
    /\ slope_pc = "call"
    /\ LET r == GetSlope(start_pt, end_pt)
       IN  /\ slope_pc' = IF r.raised THEN "raised" ELSE "returned"
           /\ slope_deg' = r.deg
    /\ UNCHANGED <<start_pt, end_pt, filterVars, plateVars>>

PlatesIdle ==
    /\ plates_file = <<>> /\ plates_df = <<>> /\ todo = <<>>
    /\ pb_dict = EmptyDict /\ plates_pc = "idle"

PlatesInit ==
    /\ plates_file \in PlateFiles
    /\ plates_df = <<>> /\ todo = <<>>
    /\ pb_dict = EmptyDict /\ plates_pc = "read"

\* df = pd.read_csv(...); pb_dict = {}; the loop's iterable is evaluated.
ReadPlates ==
    /\ plates_pc = "read"
    /\ plates_df' = ReadCsv(plates_file)
    /\ todo' = Unique([i \in 1..Len(plates_file) |-> ReadCsv(plates_file)[i].name])
    /\ pb_dict' = EmptyDict
    /\ plates_pc' = "loop"
    /\ UNCHANGED <<plates_file, filterVars, slopeVars>>

\* One iteration of: for plate_name in df["name"].unique()
LoopBody ==
    /\ plates_pc = "loop" /\ todo # <<>>
    /\ LET plate_name == Head(todo)
       IN  pb_dict' = [k \in DOMAIN pb_dict \cup {plate_name} |->
                          IF k = plate_name THEN Coords(plates_df, plate_name)
                          ELSE pb_dict[k]]
    /\ todo' = Tail(todo)
    /\ UNCHANGED <<plates_file, plates_df, plates_pc, filterVars, slopeVars>>

\* return pb_dict
ReturnPlates ==
    /\ plates_pc = "loop" /\ todo = <<>>
    /\ plates_pc' = "done"
    /\ UNCHANGED <<plates_file, plates_df, todo, pb_dict, filterVars, slopeVars>>

--------------------------------------------------------------------------
(* Specifications *)

Init == FilterInit /\ SlopeIdle /\ PlatesIdle

Next ==
    \/ Enter
    \/ TimesBlock
    \/ LonsBlock
    \/ LatsBlock
    \/ DepthsBlock
    \/ MagsBlock
    \/ Reapply

Spec == Init /\ [][Next]_vars

SlopeStart == FilterIdle /\ SlopeInit /\ PlatesIdle

SlopeNext == CallGetSlope

SpecSlope == SlopeStart /\ [][SlopeNext]_vars

PlatesStart == FilterIdle /\ SlopeIdle /\ PlatesInit

PlatesNext ==
    \/ ReadPlates
    \/ LoopBody
    \/ ReturnPlates

SpecPlates == PlatesStart /\ [][PlatesNext]_vars

--------------------------------------------------------------------------
(* What the claims speak of *)

\* The columns whose range argument the call was given.
Supplied == {c \in NumCols \cup {"Time"} : args[ArgName(c)] # None}

\* The blocks of `order` run one after the other on the subset, stopping at
\* the first that raises.
RECURSIVE RunBlocks(_, _, _, _)
RunBlocks(src, acc, order, a) ==
    IF order = <<>> \/ ~acc.ok THEN acc
    ELSE RunBlocks(src, ApplyOne(src, acc.t, Head(order), a), Tail(order), a)

\* select_quake_subset(t, **a) as a function.
SelectQuakeSubset(t, a) == RunBlocks(t, Ok(DfCopy(t).tbl), RangeCols, a)

\* The arguments of a call that supplies the range of column c alone.
OnlyArg(c, a) == [d \in DOMAIN a |-> IF d = ArgName(c) THEN a[d] ELSE None]

\* One call per column of `order`, each on the output of the one before.
RECURSIVE RunCalls(_, _, _)
RunCalls(acc, order, a) ==
    IF order = <<>> \/ ~acc.ok THEN acc
    ELSE RunCalls(SelectQuakeSubset(acc.t, OnlyArg(Head(order), a)), Tail(order), a)

\* The sequences that list each element of S once.
RECURSIVE Perms(_)
Perms(S) ==
    IF S = {} THEN {<<>>}
    ELSE UNION {{<<x>> \o q : q \in Perms(S \ {x})} : x \in S}

\* The orders in which the supplied ranges can be applied.
Orders == Perms(Supplied)

\* The instant a Time cell denotes, read off without the code's conversion.
InstantOf(cell) == IF cell.kind = "str" THEN ParseTime(cell.text) ELSE cell

\* Row r has its column c within the supplied range, bounds included.
Satisfies(r, c) ==
    IF c = "Time"
        THEN /\ InstantOf(args.times[1]).inst <= InstantOf(r[c]).inst
             /\ InstantOf(r[c]).inst <= InstantOf(args.times[2]).inst
    ELSE /\ r[c] # NaN
         /\ args[ArgName(c)][1] <= r[c]
         /\ r[c] <= args[ArgName(c)][2]

\* A row with its Time read as an instant where it denotes one, so that rows
\* compare by what they hold and not by how Time is represented.
AsInstants(rows) ==
    [i \in 1..Len(rows) |->
        IF "Time" \in DOMAIN rows[i] /\ InstantOf(rows[i].Time).kind = "ts"
            THEN [rows[i] EXCEPT !.Time = InstantOf(@)]
        ELSE rows[i]]

\* out is src with some rows left out: same rows, same order, none twice.
IsSubSeq(out, src) ==
    \E f \in [1..Len(out) -> 1..Len(src)] :
        /\ \A i, j \in 1..Len(out) : i < j => f[i] < f[j]
        /\ \A i \in 1..Len(out) : out[i] = src[f[i]]

Returned == pc = "done"

Ended == pc \in {"done", "error"}

\* C1: a call that returns, returns exactly the rows of its catalogue whose
\* value in every supplied range's column lies within the range, both bounds
\* included, in catalogue order.
C1_ExactlyTheRowsInRange ==
    Returned =>
        AsInstants(df_sub.rows) =
            AsInstants(SelectSeq(df0.rows,
                                 LAMBDA r : \A c \in Supplied : Satisfies(r, c)))

\* C1 witness: a call with two or more ranges returned, keeping a row that
\* sits on a bound and leaving another out.
C1_Witness ==
    /\ Returned /\ calls = 1
    /\ Cardinality(Supplied) >= 2
    /\ Len(df_sub.rows) >= 1
    /\ Len(df_sub.rows) < Len(df0.rows)
    /\ \E i \in 1..Len(df_sub.rows) : \E c \in Supplied \ {"Time"} :
          \/ df_sub.rows[i][c] = args[ArgName(c)][1]
          \/ df_sub.rows[i][c] = args[ArgName(c)][2]

\* The outcome of applying the supplied ranges in order o as blocks of one
\* call, and as successive calls each on the output of the one before.
AsBlocks(o) == RunBlocks(df0, Ok(DfCopy(df0).tbl), o, args)

AsCalls(o) == RunCalls(Ok(df0), o, args)

\* The rows of the catalogue that satisfy every supplied range, as a table
\* that went through the times block holds them.
RowsInEveryRange ==
    LET sel == SelectSeq(df0.rows, LAMBDA r : \A c \in Supplied : Satisfies(r, c))
    IN  IF "Time" \in Supplied THEN AsInstants(sel) ELSE sel

\* C2 as stated: in whatever order the supplied ranges are applied, the
\* outcome is that of the call: the same rows in the same order.
C2_AnyOrderSameSubset ==
    (Ended /\ calls = 1) =>
        \A o \in Orders :
            /\ AsBlocks(o).ok = Returned /\ AsCalls(o).ok = Returned
            /\ Returned => /\ AsBlocks(o).t.rows = df_sub.rows
                           /\ AsCalls(o).t.rows = df_sub.rows

\* C2 amended: the orders that succeed all yield the same rows in the same
\* order, those of the call when it returns; and when no times range is
\* supplied, every order succeeds or fails as the call does.
C2_OrdersThatSucceedAgree ==
    (Ended /\ calls = 1) =>
        LET rows == RowsInEveryRange
        IN  /\ Returned => df_sub.rows = rows
            /\ \A o \in Orders :
                  LET b == AsBlocks(o)
                      c == AsCalls(o)
                  IN  /\ b.ok => b.t.rows = rows
                      /\ c.ok => c.t.rows = rows
                      /\ "Time" \notin Supplied =>
                            (b.ok = Returned /\ c.ok = Returned)

\* C2 witness: a call with three ranges, times among them, returned a
\* proper, non-empty part of a catalogue.
C2_Witness ==
    /\ Returned /\ calls = 1
    /\ Cardinality(Supplied) >= 3 /\ "Time" \in Supplied
    /\ Len(df_sub.rows) >= 1
    /\ Len(df_sub.rows) < Len(df0.rows)

\* C3: the returned table is a sub-sequence of the catalogue: every row is
\* a catalogue row with all its columns and values as they were, in
\* catalogue order, none twice.
C3_OutputIsSubSequenceOfSource ==
    Returned =>
        /\ df_sub.cols = df0.cols
        /\ IsSubSeq(df_sub.rows, df0.rows)

\* C4: a call without any range argument returns a table equal to its input.
C4_NoRangeIsIdentity ==
    (Returned /\ Supplied = {}) => df_sub = df0

\* C4 witness: such a call returned, on a catalogue that has rows.
C4_Witness ==
    /\ Returned /\ calls = 1
    /\ Supplied = {}
    /\ Len(df0.rows) >= 2

\* C5: the call on the output of a call, with the same bounds, succeeds and
\* returns that output again.
C5_Idempotent ==
    (Ended /\ calls = 2) => (Returned /\ df_sub = first)

\* C5 witness: the second call returned rows, a times range among the bounds.
C5_Witness ==
    /\ Returned /\ calls = 2
    /\ "Time" \in Supplied /\ Cardinality(Supplied) >= 2
    /\ Len(df_sub.rows) >= 1

\* C6: the caller's catalogue is at all times what it was when the call began.
C6_SourceNeverMutated ==
    pc # "idle" => df = df0

\* C6 witness: a call with a times range ended, returning parsed instants or
\* failing after the conversion, on a catalogue whose Time holds strings.
C6_Witness ==
    /\ Ended /\ calls = 1
    /\ "Time" \in Supplied
    /\ Len(df0.rows) >= 1
    /\ \A i \in 1..Len(df0.rows) : df0.rows[i].Time.kind = "str"
    /\ \/ Returned /\ Len(df_sub.rows) >= 1 /\ df_sub.rows[1].Time.kind = "ts"
       \/ pc = "error" /\ err = "TypeError"

\* The supplied numeric ranges whose column the catalogue lacks.
MissingSupplied == {c \in Supplied \ {"Time"} : c \notin df0.cols}

\* C10 as stated: a supplied numeric range on an absent column makes the
\* call fail with a schema error (KeyError) and return nothing; and a schema
\* error names a column whose range was supplied.
C10_MissingColumnIsSchemaError ==
    (Ended /\ calls = 1) =>
        /\ MissingSupplied # {} =>
              (pc = "error" /\ err = "KeyError" /\ df_sub = NoTable)
        /\ err = "KeyError" => \E c \in Supplied : c \notin df0.cols

\* C10 amended: such a call always fails and returns nothing; the failure
\* is the schema error unless the times block, which runs first, has
\* already raised its own error; a schema error names a column whose range
\* was supplied.
C10_MissingColumnAlwaysFails ==
    (Ended /\ calls = 1) =>
        /\ MissingSupplied # {} =>
              /\ pc = "error" /\ df_sub = NoTable
              /\ \/ err = "KeyError"
                 \/ /\ "Time" \in Supplied
                    /\ err \in {"ValueError", "TypeError"}
                    /\ ~TimesStep(df0, args.times).ok
        /\ err = "KeyError" => \E c \in Supplied : c \notin df0.cols

\* C10 witness: the call failed with the schema error on a catalogue with
\* rows, after an earlier range had left no row in the subset.
C10_Witness ==
    /\ pc = "error" /\ err = "KeyError" /\ calls = 1
    /\ Len(df0.rows) >= 1
    /\ \E i, j \in 1..Len(RangeCols) :
          /\ i < j
          /\ RangeCols[i] \in Supplied /\ RangeCols[i] \in df0.cols
          /\ \A k \in 1..Len(df0.rows) : ~Satisfies(df0.rows[k], RangeCols[i])
          /\ RangeCols[j] \in MissingSupplied
          /\ \A k \in 1..(j - 1) : RangeCols[k] \notin MissingSupplied

\* C7: get_slope raises exactly when the two points have the same first
\* coordinate, and returns an angle otherwise.
C7_RaisesIffSameFirstCoordinate ==
    slope_pc \in {"raised", "returned"} =>
        ((slope_pc = "raised") <=> (start_pt[1] = end_pt[1]))

\* C7 witness: it raised for two equal points, a position where the rise is
\* zero too.
C7_Witness ==
    /\ slope_pc = "raised"
    /\ start_pt = end_pt

\* What C9 says of the angle, but for its range.
SlopeValues ==
    LET rise == end_pt[2] - start_pt[2]
        run  == end_pt[1] - start_pt[1]
    IN  /\ rise = 0 => slope_deg = 0
        /\ rise = run => slope_deg = 45
        /\ rise = 0 - run => slope_deg = 0 - 45
        /\ Sign(slope_deg) = Sign(rise) * Sign(run)

C8_PartitionByName ==
    plates_pc = "done" =>
        LET names == {plates_file[i][1] : i \in 1..Len(plates_file)}
            OfName(n) == SelectSeq(plates_file, LAMBDA row : row[1] = n)
        IN  /\ \A k \in DOMAIN pb_dict : pb_dict[k] # <<>>
            /\ \A n \in names :
                  /\ n \in DOMAIN pb_dict
                  /\ pb_dict[n] = [i \in 1..Len(OfName(n)) |->
                                     <<OfName(n)[i][3], OfName(n)[i][2]>>]
            /\ \A k \in DOMAIN pb_dict : k \in names

====
